---- MODULE Spec2Model ----
(***************************************************************************)
(* SentinelFS proof of concept: the signal scoring and alerting engine     *)
(* (src/src/scoring.py), the SQLite action / decision store                *)
(* (src/src/db.py) and the session handlers of the dashboard (src/app.py). *)
(*                                                                         *)
(* Numbers.  Scores, percentage changes, prices and confidences are        *)
(* floating point numbers in the program.  Here every number is an integer *)
(* count of hundredths (70.0 is 7000, confidence 1.0 is 100), and the raw  *)
(* driver scores are drawn from multiples of 0.20, so that the weighted    *)
(* sum 0.35 s + 0.25 l + 0.20 c + 0.20 g is exact.  A cell of a data frame *)
(* is a record: a number, the missing marker (pandas NaN), or a text that  *)
(* does not parse as a number.                                             *)
(***************************************************************************)
EXTENDS Integers, Sequences, FiniteSets, TLC

VARIABLES
    df,             \* harness: the data frame handed to the pure function
    out,            \* harness: normalize_signals(df)
    out2,           \* harness: normalize_signals(out)
    alerts,         \* harness: generate_alerts(...)
    pc,             \* harness: which calls have been made
    csv,            \* data/mock_signals.csv as read by pd.read_csv
    session,        \* st.session_state of each browser session
    actions,        \* table actions of data/actions.db
    decision_log,   \* table decision_log of data/actions.db
    sqlite_sequence,\* AUTOINCREMENT counters of the two tables
    init_call,      \* the call of init_db each session has in progress
    last_call,      \* the store operation called last, and its arguments
    history         \* history of the store, kept for the properties only

vars == <<df, out, out2, alerts, pc, csv, session, actions, decision_log,
          sqlite_sequence, init_call, last_call, history>>

harnessVars == <<df, out, out2, alerts, pc>>
appVars == <<csv, session, actions, decision_log, sqlite_sequence, init_call,
            last_call, history>>

----------------------------------------------------------------------------
(* Cells *)

Num(v) == [k |-> "num", v |-> v]
NaN == [k |-> "nan", v |-> 0]
Text == [k |-> "text", v |-> 0]

IsNum(c) == c.k = "num"

Min(a, b) == IF a <= b THEN a ELSE b
Max(a, b) == IF a >= b THEN a ELSE b

\* pd.to_numeric(column, errors="coerce"): a text that is no number becomes NaN
to_numeric(c) == IF c.k = "num" THEN c ELSE NaN

\* Series.clip(lo, hi): NaN stays NaN
clip_lower_only(c, lo, hi) == IF IsNum(c) THEN Num(Max(lo, c.v)) ELSE c
clip(c, lo, hi) == IF IsNum(c) THEN Num(Max(lo, Min(hi, c.v))) ELSE c

\* pd.to_datetime(column).dt.date: the time of day is dropped
to_date(d) == [day |-> d.day, tod |-> 0]

\* float comparisons: every comparison with NaN is False
Ge(c, n) == IF IsNum(c) THEN c.v >= n ELSE FALSE
Lt(c, n) == IF IsNum(c) THEN c.v < n ELSE FALSE
Abs(c) == IF IsNum(c) THEN Num(IF c.v < 0 THEN 0 - c.v ELSE c.v) ELSE c
Plus(c, n) == IF IsNum(c) THEN Num(c.v + n) ELSE c

----------------------------------------------------------------------------
(* src/src/scoring.py *)

DRIVERS == <<"supply_risk_score", "logistics_risk_score",
             "climate_risk_score", "geopolitical_risk_score">>

DriverName(i) == <<"Supply", "Logistics", "Climate", "Geopolitical">>[i]

\* the score of the i-th driver of row r
Driver(r, i) == CASE i = 1 -> r.supply_risk_score
                  [] i = 2 -> r.logistics_risk_score
                  [] i = 3 -> r.climate_risk_score
                  [] OTHER -> r.geopolitical_risk_score

\* 0.35 s + 0.25 l + 0.20 c + 0.20 g; NaN as soon as one driver is NaN
compute_composite(r) ==
    IF \A i \in 1..4 : IsNum(Driver(r, i))
    THEN Num((35 * Driver(r, 1).v + 25 * Driver(r, 2).v
              + 20 * Driver(r, 3).v + 20 * Driver(r, 4).v) \div 100)
    ELSE NaN

\* DataFrame.idxmax(axis=1): the first column holding the row's maximum, NaN
\* cells skipped; a row of NaN alone has no maximum (the mapped name is NaN)
ArgMaxFirst(r) ==
    LET present == {i \in 1..4 : IsNum(Driver(r, i))}
    IN  IF present = {} THEN 0
        ELSE CHOOSE i \in present :
                /\ \A j \in present : Driver(r, j).v <= Driver(r, i).v
                /\ \A j \in present : j < i => Driver(r, j).v < Driver(r, i).v
compute_main_driver(r) ==
    LET i == ArgMaxFirst(r) IN IF i = 0 THEN "NaN" ELSE DriverName(i)

\* lines 59-64: the date and the numeric columns are converted
Coerce(r) ==
    [r EXCEPT !.date = to_date(@),
              !.price = to_numeric(@),
              !.chg_7d = to_numeric(@),
              !.chg_30d = to_numeric(@),
              !.supply_risk_score = to_numeric(@),
              !.logistics_risk_score = to_numeric(@),
              !.climate_risk_score = to_numeric(@),
              !.geopolitical_risk_score = to_numeric(@),
              !.confidence = to_numeric(@)]

\* lines 66-73: the composite is computed when the column is absent, and for
\* the rows where it is NaN after conversion when the column is there
Derive(r, hasColumn) ==
    IF ~hasColumn THEN [r EXCEPT !.composite_risk_score = compute_composite(r)]
    ELSE LET c == to_numeric(r.composite_risk_score)
         IN  [r EXCEPT !.composite_risk_score =
                          IF IsNum(c) THEN c ELSE compute_composite(r)]

\* lines 78-82
Clamp(r) ==
    [r EXCEPT !.supply_risk_score = clip(@, 0, 10000),
              !.logistics_risk_score = clip(@, 0, 10000),
              !.climate_risk_score = clip(@, 0, 10000),
              !.geopolitical_risk_score = clip(@, 0, 10000),
              !.composite_risk_score = clip(@, 0, 10000),
              !.confidence = clip(@, 0, 100)]

\* one row through lines 59-82, in the order of the code: convert, derive the
\* composite, recompute main_driver, and only then clamp
NormalizeRow(r, hasColumn) ==
    LET d == Derive(Coerce(r), hasColumn)
    IN  Clamp([d EXCEPT !.main_driver = compute_main_driver(d)])

normalize_signals(frame) ==
    [cols |-> frame.cols \cup {"composite_risk_score", "main_driver"},
     rows |-> [i \in 1..Len(frame.rows) |->
                 NormalizeRow(frame.rows[i],
                              "composite_risk_score" \in frame.cols)]]

\* lines 29-36: a NaN composite fails all three comparisons
severity_from_composite(composite) ==
    IF Lt(composite, 5000) THEN "Low"
    ELSE IF Lt(composite, 7000) THEN "Medium"
    ELSE IF Lt(composite, 8500) THEN "High"
    ELSE "Critical"

\* lines 43-49
trigger_risk_strict(r) == IsNum(r.composite_risk_score) /\ r.composite_risk_score.v > 7000
trigger_risk(r) == Ge(r.composite_risk_score, 7000)
trigger_price(r) == Ge(Abs(r.chg_7d), 1000)

trigger_reason(r) ==
    IF trigger_risk(r) /\ trigger_price(r)
        THEN "Composite >= 70 AND |7D change| >= 10"
    ELSE IF trigger_risk(r) /\ ~trigger_price(r) THEN "Composite >= 70"
    ELSE IF ~trigger_risk(r) /\ trigger_price(r) THEN "|7D change| >= 10"
    ELSE ""

\* lines 40-49: the three columns generate_alerts adds to a row
Annotate(r) ==
    [index |-> r.index, commodity |-> r.commodity, date |-> r.date,
     price |-> r.price, chg_7d |-> r.chg_7d, chg_30d |-> r.chg_30d,
     supply_risk_score |-> r.supply_risk_score,
     logistics_risk_score |-> r.logistics_risk_score,
     climate_risk_score |-> r.climate_risk_score,
     geopolitical_risk_score |-> r.geopolitical_risk_score,
     composite_risk_score |-> r.composite_risk_score,
     main_driver |-> r.main_driver, confidence |-> r.confidence,
     severity |-> severity_from_composite(r.composite_risk_score),
     triggered |-> trigger_risk(r) \/ trigger_price(r),
     trigger_reason |-> trigger_reason(r)]

\* df[df["triggered"]]: the triggered rows, in their order
RECURSIVE TriggeredRows(_)
TriggeredRows(s) ==
    IF s = <<>> THEN <<>>
    ELSE IF Head(s).triggered THEN <<Head(s)>> \o TriggeredRows(Tail(s))
    ELSE TriggeredRows(Tail(s))

\* sort_values(ascending=False), na_position="last": x sorts strictly before y
DescBefore(x, y) == IsNum(x) /\ (~IsNum(y) \/ x.v > y.v)
SameKey(x, y) == (IsNum(x) /\ IsNum(y) /\ x.v = y.v) \/ (~IsNum(x) /\ ~IsNum(y))

\* sort_values(["composite_risk_score", "chg_7d"], ascending=[False, False])
SortsBeforeAscending(a, b) ==
    \/ DescBefore(b.composite_risk_score, a.composite_risk_score)
    \/ /\ SameKey(a.composite_risk_score, b.composite_risk_score)
       /\ DescBefore(a.chg_7d, b.chg_7d)
SortsBefore(a, b) ==
    \/ DescBefore(a.composite_risk_score, b.composite_risk_score)
    \/ /\ SameKey(a.composite_risk_score, b.composite_risk_score)
       /\ DescBefore(a.chg_7d, b.chg_7d)

\* r put into the sorted sequence s, behind the rows it does not sort before
\* (the sort on several columns is a stable one)
RECURSIVE InsertSorted(_, _)
InsertSorted(s, r) ==
    IF s = <<>> THEN <<r>>
    ELSE IF SortsBefore(r, Head(s)) THEN <<r>> \o s
    ELSE <<Head(s)>> \o InsertSorted(Tail(s), r)

RECURSIVE sort_values(_)
sort_values(s) ==
    IF s = <<>> THEN <<>>
    ELSE InsertSorted(sort_values(SubSeq(s, 1, Len(s) - 1)), s[Len(s)])

\* lines 39-53
generate_alerts(signals) ==
    LET annotated == [i \in 1..Len(signals.rows) |-> Annotate(signals.rows[i])]
    IN  sort_values(TriggeredRows(annotated))

----------------------------------------------------------------------------
(* Texts that the code trims are sequences of characters *)

IsSpace(ch) == ch = " "

RECURSIVE lstrip(_)
lstrip(t) == IF t # <<>> /\ IsSpace(Head(t)) THEN lstrip(Tail(t)) ELSE t

RECURSIVE rstrip(_)
rstrip(t) ==
    IF t # <<>> /\ IsSpace(t[Len(t)]) THEN rstrip(SubSeq(t, 1, Len(t) - 1)) ELSE t

\* str.strip()
strip(t) == rstrip(lstrip(t))

----------------------------------------------------------------------------
(* src/src/db.py: the two tables are sets of rows keyed by id *)

\* utcnow() read by a call: the seconds at which calls can happen
Times == {"2026-03-01T10:00:00Z", "2026-03-01T10:00:01Z"}

MaxOf(S) == CHOOSE m \in S : \A x \in S : x <= m

\* INTEGER PRIMARY KEY AUTOINCREMENT: one more than the largest id the table
\* has ever held (sqlite_sequence) and than the largest id it holds
NextIdRowidOnly(table, name) ==
    (IF table = {} THEN 0 ELSE MaxOf({r.id : r \in table})) + 1
NextId(table, name) ==
    Max(sqlite_sequence[name], IF table = {} THEN 0 ELSE MaxOf({r.id : r \in table})) + 1

\* lines 55-67: the row init_db builds from row r of the seed frame
SeedRow(r, id, now) ==
    [id |-> id, title |-> strip(r.title), owner |-> strip(r.owner),
     due_date |-> strip(r.due_date), status |-> strip(r.status),
     notes |-> strip(r.notes),
     expected_risk_impact |-> strip(r.expected_risk_impact),
     commodity |-> strip(r.commodity), created_at |-> now]

\* lines 50-52: seed only if the table is empty and there are seed rows
ShouldSeedAlways(seed_actions) == Len(seed_actions) > 0
ShouldSeed(seed_actions) == actions = {} /\ Len(seed_actions) > 0

\* lines 53-76: executemany and commit, the rows of the seed frame inserted in
\* one write transaction
InsertSeeds(seed_actions, now) ==
    LET first == NextId(actions, "actions")
        ids == [i \in 1..Len(seed_actions) |-> first + i - 1]
    IN  /\ actions' = actions \cup
              {SeedRow(seed_actions[i], ids[i], now) : i \in 1..Len(seed_actions)}
        /\ sqlite_sequence' =
              [sqlite_sequence EXCEPT !["actions"] = ids[Len(seed_actions)]]
        /\ history' = [history EXCEPT
              !.seed_of = @ \cup {<<ids[i], i>> : i \in 1..Len(seed_actions)},
              !.assigned = @ \cup {ids[i] : i \in 1..Len(seed_actions)}]

\* lines 19-79, a call that no other call runs into (the two tables exist from
\* the first call on)
init_db(seed_actions, now) ==
    IF ShouldSeed(seed_actions)
    THEN InsertSeeds(seed_actions, now)
    ELSE /\ UNCHANGED <<actions, sqlite_sequence>>
         /\ history' = [history EXCEPT !.called_again = @ \/ actions # {}]

\* lines 82-87
add_decision_log(message, now) ==
    LET id == NextId(decision_log, "decision_log")
        entry == [id |-> id, ts |-> now, message |-> message]
    IN  /\ decision_log' = decision_log \cup {entry}
        /\ sqlite_sequence' = [sqlite_sequence EXCEPT !["decision_log"] = id]
        /\ history' = [history EXCEPT !.logged = Append(@, entry)]

\* lines 140-153: ORDER BY id DESC LIMIT ? (a negative limit is no limit)
RECURSIVE ListDecisionLogsOldestFirst(_, _)
ListDecisionLogsOldestFirst(table, limit) ==
    IF table = {} \/ limit = 0 THEN <<>>
    ELSE LET first == CHOOSE e \in table : \A q \in table : e.id <= q.id
         IN  <<first>> \o ListDecisionLogsOldestFirst(table \ {first}, limit - 1)
RECURSIVE ListDecisionLogs(_, _)
ListDecisionLogs(table, limit) ==
    IF table = {} \/ limit = 0 THEN <<>>
    ELSE LET first == CHOOSE e \in table : \A q \in table : q.id <= e.id
         IN  <<first>> \o ListDecisionLogs(table \ {first}, limit - 1)
list_decision_logs(limit) == ListDecisionLogs(decision_log, limit)

\* lines 90-109
add_action(title, owner, due_date, status, notes, expected_risk_impact, commodity, now) ==
    LET id == NextId(actions, "actions")
    IN  /\ actions' = actions \cup
              {[id |-> id, title |-> title, owner |-> owner, due_date |-> due_date,
                status |-> status, notes |-> notes,
                expected_risk_impact |-> expected_risk_impact,
                commodity |-> commodity, created_at |-> now]}
        /\ sqlite_sequence' = [sqlite_sequence EXCEPT !["actions"] = id]
        /\ history' = [history EXCEPT !.assigned = @ \cup {id}]

\* ORDER BY on a TEXT column: the order of the characters a due date has
Alphabet == <<"-", "0", "1", "2", "3", "4", "5", "6", "7", "8", "9">>
Rank(ch) == CHOOSE i \in 1..Len(Alphabet) : Alphabet[i] = ch

RECURSIVE TextLess(_, _)
TextLess(a, b) ==
    IF b = <<>> THEN FALSE
    ELSE IF a = <<>> THEN TRUE
    ELSE IF Head(a) # Head(b) THEN Rank(Head(a)) < Rank(Head(b))
    ELSE TextLess(Tail(a), Tail(b))

\* ORDER BY due_date ASC, id DESC: r comes before q
ListedBefore(r, q) ==
    \/ TextLess(r.due_date, q.due_date)
    \/ r.due_date = q.due_date /\ r.id > q.id

\* lines 112-123: all rows of the table, in the order of the query
RECURSIVE ListActions(_)
ListActions(table) ==
    IF table = {} THEN <<>>
    ELSE LET first == CHOOSE r \in table :
                          \A q \in table \ {r} : ListedBefore(r, q)
         IN  <<first>> \o ListActions(table \ {first})
list_actions == ListActions(actions)

\* lines 126-130
update_action_all_rows(action_id, status, notes) ==
    actions' = {[r EXCEPT !.status = status, !.notes = notes] : r \in actions}
update_action(action_id, status, notes) ==
    actions' = {IF r.id = action_id
                THEN [r EXCEPT !.status = status, !.notes = notes] ELSE r
                : r \in actions}

\* lines 133-137
delete_action_up_to(action_id) ==
    /\ actions' = {r \in actions : r.id > action_id}
    /\ history' = [history EXCEPT
          !.emptied = @ \/ (actions # {} /\ actions' = {})]
delete_action(action_id) ==
    /\ actions' = {r \in actions : r.id # action_id}
    /\ history' = [history EXCEPT
          !.emptied = @ \/ (actions # {} /\ actions' = {})]

----------------------------------------------------------------------------
(* src/app.py: the sessions and their handlers *)

\* bounds of the model: handler runs per session, ids per table, entries of
\* the decision log written by the store on its own and by the shocks
MaxEvents == 2
MaxIds == 3
MaxLog == 1
MaxShocks == 3

Sessions == {"s1", "s2"}

\* no store operation called yet; nothing seeded, no id assigned yet
NoOperation ==
    [op |-> "", id |-> 0, title |-> <<>>, owner |-> <<>>, status |-> <<>>,
     notes |-> <<>>]
NoHistory ==
    [seed_of |-> {}, assigned |-> {}, logged |-> <<>>, emptied |-> FALSE,
     called_again |-> FALSE]

\* no call of init_db in progress, and none made yet
NoCall == [at |-> "idle", count |-> 0, calls |-> 0]

EmptyFrame == [cols |-> {}, rows |-> <<>>]

\* st.session_state of a session whose script has not run yet
NoSession ==
    [keys |-> {}, signals |-> EmptyFrame, selected_commodity |-> "",
     notifications |-> <<>>, db_inited |-> FALSE, flash |-> ""]

\* lines 54-59
SeedNotifications ==
    <<[severity |-> "High", msg |-> <<"Export restriction mention detected", "Wheat">>],
      [severity |-> "High", msg |-> <<"Red Sea corridor freight volatility elevated">>],
      [severity |-> "Medium", msg |-> <<"Black Sea transit disruption risk">>],
      [severity |-> "Medium", msg |-> <<"Hamad Port throughput anomaly">>]>>

\* lines 33-34: strftime("%Y-%m-%d %H:%MZ") keeps the minute of the time read
_utc_now(now) == "2026-03-01 10:00Z"

\* lines 75-76
push_notification(list, severity, msg, now) ==
    Append(list, [ts |-> _utc_now(now), severity |-> severity, msg |-> msg])

\* src/src/data_sources.py lines 12-16 and 19-22: both loaders are cached and
\* hand every caller its own copy of the same value
load_mock_signals == normalize_signals(csv.signals)
load_mock_actions_csv == csv.actions

Commodities(frame) == {frame.rows[i].commodity : i \in 1..Len(frame.rows)}

\* lines 38-67: the first run of a session's script
init_state(s) ==
    /\ session[s].keys = {}
    /\ ShouldSeed(load_mock_actions_csv) =>
          sqlite_sequence["actions"] + Len(load_mock_actions_csv) <= MaxIds
    /\ \E now \in Times :
        /\ session' = [session EXCEPT ![s] =
              [keys |-> {"signals", "selected_commodity", "notifications", "db_inited"},
               signals |-> load_mock_signals,
               selected_commodity |-> load_mock_signals.rows[1].commodity,
               notifications |->
                   [i \in 1..Len(SeedNotifications) |->
                       [ts |-> _utc_now(now), severity |-> SeedNotifications[i].severity,
                        msg |-> SeedNotifications[i].msg]],
               db_inited |-> TRUE, flash |-> ""]]
        /\ init_db(load_mock_actions_csv, now)
    /\ UNCHANGED <<csv, decision_log>>
    /\ UNCHANGED <<harnessVars, init_call>>

\* the browser page is loaded anew: the session starts over with no state
reload(s) ==
    /\ session[s].keys # {}
    /\ session' = [session EXCEPT ![s] = NoSession]
    /\ UNCHANGED <<csv, actions, decision_log, sqlite_sequence, history>>
    /\ UNCHANGED <<harnessVars, init_call, last_call>>

\* lines 360-367: the shocked copy of the session's signals
ShockRow(r, commodity) ==
    IF r.commodity = commodity
    THEN [r EXCEPT !.logistics_risk_score = clip(Plus(@, 2000), 0, 10000),
                   !.geopolitical_risk_score = clip(Plus(@, 1500), 0, 10000),
                   !.chg_7d = Plus(@, 800)]
    ELSE r

Shocked(frame, commodity) ==
    [cols |-> frame.cols,
     rows |-> [i \in 1..Len(frame.rows) |-> ShockRow(frame.rows[i], commodity)]]

\* line 372: shock_df[mask].sort_values("date").iloc[-1]
LatestRow(frame, commodity) ==
    LET idx == {i \in 1..Len(frame.rows) : frame.rows[i].commodity = commodity}
        last == CHOOSE i \in idx :
                   \A j \in idx : frame.rows[j].date.day <= frame.rows[i].date.day
    IN  frame.rows[last]

\* line 370: st.session_state.signals = shock_df, the state of session s
store_signals_in_all(state, s, frame) ==
    [t \in Sessions |->
        IF state[t].keys # {} THEN [state[t] EXCEPT !.signals = frame] ELSE state[t]]
store_signals(state, s, frame) == [state EXCEPT ![s].signals = frame]

\* lines 359-378: the button "Simulate Red Sea Disruption (Qatar)"
simulate_disruption(s, commodity) ==
    /\ session[s].keys # {}
    /\ commodity \in Commodities(session[s].signals)
    /\ Len(session[s].notifications) < Len(SeedNotifications) + MaxEvents
    /\ sqlite_sequence["decision_log"] < MaxShocks
    /\ \E now \in Times :
        LET shock_df == normalize_signals(Shocked(session[s].signals, commodity))
            new_comp == LatestRow(shock_df, commodity).composite_risk_score
            new_sev == severity_from_composite(new_comp)
        IN  /\ session' = [store_signals(session, s, shock_df) EXCEPT
                  ![s].selected_commodity = commodity,
                  ![s].notifications =
                      push_notification(@, new_sev, <<"Shock simulated", commodity>>, now)]
            /\ add_decision_log(<<"Simulated Red Sea disruption triggered", commodity>>, now)
    /\ UNCHANGED <<csv, actions>>
    /\ UNCHANGED <<harnessVars, init_call, last_call>>

\* the texts the forms and the seed file hold
Ops == <<"O", "p", "s">>
Open == <<"O", "p", "e", "n">>
Done == <<"D", "o", "n", "e">>
All == <<"A", "l", "l">>
DueDate == <<"0", "3", "-", "0", "1">>

Titles == {<<" ">>, <<"T", " ">>}
Owners == {<<" ">>, <<"Q">>}
Notes == {<<"n">>}
Statuses == {Done}

\* the title shown on the page for the row with this id: the row's own, or for
\* a row deleted since the page was drawn, the title it had
ShownTitles(action_id) ==
    IF \E r \in actions : r.id = action_id
    THEN {r.title : r \in {x \in actions : x.id = action_id}}
    ELSE {strip(t) : t \in Titles} \ {<<>>}

\* line 419: not title.strip()
title_missing_untrimmed(title) == title = <<>>
title_missing(title) == strip(title) = <<>>

\* lines 418-433: the button "Add action"
add_action_button(s, title, owner) ==
    /\ session[s].keys # {}
    /\ IF title_missing(title)
       THEN /\ session' = [session EXCEPT ![s].flash = "Title is required."]
            /\ UNCHANGED <<actions, sqlite_sequence, history>>
       ELSE /\ Len(session[s].notifications) < Len(SeedNotifications) + MaxEvents
            /\ sqlite_sequence["actions"] < MaxIds
            /\ \E now \in Times :
                LET o == IF strip(owner) = <<>> THEN Ops ELSE strip(owner)
                IN  /\ add_action(strip(title), o, DueDate, Open, <<>>, <<>>, All, now)
                    /\ session' = [session EXCEPT
                          ![s].notifications =
                              push_notification(@, "Medium",
                                                <<"Action added", strip(title), o>>, now),
                          ![s].flash = "Action added."]
    /\ last_call' = [NoOperation EXCEPT !.op = "Add action", !.title = title,
                                        !.owner = owner]
    /\ UNCHANGED <<csv, decision_log>>
    /\ UNCHANGED <<harnessVars, init_call>>

\* lines 462-466: the button "Save updates" of an action
save_updates_button(s, action_id, new_status, new_notes) ==
    /\ session[s].keys # {}
    /\ Len(session[s].notifications) < Len(SeedNotifications) + MaxEvents
    /\ update_action(action_id, new_status, new_notes)
    /\ \E now \in Times, title \in ShownTitles(action_id) :
          session' = [session EXCEPT
              ![s].notifications =
                  push_notification(@, "Low", <<"Action updated", title, new_status>>, now),
              ![s].flash = "Saved."]
    /\ UNCHANGED <<csv, decision_log, sqlite_sequence, history>>
    /\ UNCHANGED <<harnessVars, init_call, last_call>>

\* lines 456-459: the button "Delete" of an action
delete_button(s, action_id) ==
    /\ session[s].keys # {}
    /\ Len(session[s].notifications) < Len(SeedNotifications) + MaxEvents
    /\ delete_action(action_id)
    /\ \E now \in Times, title \in ShownTitles(action_id) :
          session' = [session EXCEPT
              ![s].notifications =
                  push_notification(@, "Low", <<"Action deleted", title>>, now)]
    /\ UNCHANGED <<csv, decision_log, sqlite_sequence>>
    /\ UNCHANGED <<harnessVars, init_call, last_call>>

----------------------------------------------------------------------------
(* The inputs *)

MaxRows == 2
MaxAlertRows == 3

\* one row of data/mock_signals.csv as pd.read_csv hands it over
RawRow(commodity, day, chg, s, l, c, g, comp, conf) ==
    [index |-> 0, commodity |-> commodity, date |-> [day |-> day, tod |-> 43200],
     price |-> Num(25000), chg_7d |-> chg, chg_30d |-> Text,
     supply_risk_score |-> s, logistics_risk_score |-> l,
     climate_risk_score |-> c, geopolitical_risk_score |-> g,
     composite_risk_score |-> comp, main_driver |-> "", confidence |-> conf]

\* the rows numbered as the index of a data frame numbers them
Indexed(rows) == [i \in 1..Len(rows) |-> [rows[i] EXCEPT !.index = i - 1]]

\* driver scores in and out of range and unparseable; a composite and a
\* confidence that are unparseable, in range, above and below the range
NormDrivers ==
    {<<s, l, Num(10000), Num(4000)>> : s \in {Text, Num(6000), Num(10000)},
                                       l \in {Num(-2000), Num(6000), Num(15000)}}
NormCompConf ==
    {<<Text, Num(50)>>, <<Num(5000), Num(-50)>>,
     <<Num(15000), Num(150)>>, <<Num(-2000), Text>>}

\* the rows of a file with a composite column, and of one without
NormRows(hasColumn) ==
    {RawRow("Wheat", 1, Num(500), d[1], d[2], d[3], d[4],
            IF hasColumn THEN cc[1] ELSE NaN, cc[2]) :
        d \in NormDrivers, cc \in NormCompConf}

\* composites at and around the alert threshold and a missing one (a missing
\* driver and no composite supplied); 7-day changes at and around +-10
AlertComposites ==
    {<<Text, Text>>, <<Num(6000), Num(6980)>>, <<Num(6000), Num(7000)>>,
     <<Num(6000), Num(8500)>>}
AlertChanges == {Text, Num(-1000), Num(980), Num(1200)}
AlertRows ==
    {RawRow("Wheat", 1, chg, sc[1], Num(6000), Num(6000), Num(6000), sc[2], Num(50)) :
        sc \in AlertComposites, chg \in AlertChanges}
\* composites at and around the other severity thresholds
BandRows ==
    {RawRow("Rice", 1, Num(1200), Num(6000), Num(6000), Num(6000), Num(6000), Num(comp), Num(50)) :
        comp \in {4980, 5000, 8480}}


\* data/mock_signals.csv: two commodities, the first on two dates
CsvWheat ==
    {RawRow("Wheat", 1, Num(500), Num(6000), Num(6000), Num(4000), Num(6000), NaN, Num(80)),
     RawRow("Wheat", 1, Num(500), Text, Num(6000), Num(4000), Num(9000), NaN, Num(80))}
CsvRice ==
    {RawRow("Rice", 1, Num(-400), Num(4000), Num(2000), Num(6000), Num(2000), NaN, Num(60)),
     RawRow("Rice", 1, Num(-400), Num(10000), Num(15000), Num(6000), Num(2000), NaN, Num(60))}
CsvSignals ==
    {[cols |-> {},
      rows |-> Indexed(<<w, r,
          RawRow("Wheat", 2, Num(200), Num(8000), Num(9000), Num(4000), Num(9000), NaN, Num(80))>>)] :
        w \in CsvWheat, r \in CsvRice}

\* data/mock_actions.csv: no row, or two
SeedFile(title) ==
    [title |-> title, owner |-> <<"R", " ">>, due_date |-> DueDate, status |-> Open,
     notes |-> <<>>, expected_risk_impact |-> <<>>, commodity |-> All]
CsvActions ==
    {<<>>, <<SeedFile(<<"A">>)>>, <<SeedFile(<<"A">>), SeedFile(<<" ", "B">>)>>}

----------------------------------------------------------------------------
(* The specifications *)

AppIdle ==
    /\ csv = [signals |-> EmptyFrame, actions |-> <<>>]
    /\ session = [s \in Sessions |-> NoSession]
    /\ actions = {}
    /\ decision_log = {}
    /\ sqlite_sequence = [t \in {"actions", "decision_log"} |-> 0]
    /\ init_call = [s \in Sessions |-> NoCall]
    /\ last_call = NoOperation
    /\ history = NoHistory

HarnessIdle ==
    /\ df = EmptyFrame
    /\ out = EmptyFrame
    /\ out2 = EmptyFrame
    /\ alerts = <<>>

\* normalize_signals(df)
Normalize ==
    /\ pc = "raw"
    /\ out' = normalize_signals(df)
    /\ pc' = "normalized"
    /\ UNCHANGED <<df, out2, alerts>>
    /\ UNCHANGED appVars

\* normalize_signals(normalize_signals(df))
Renormalize ==
    /\ pc = "normalized"
    /\ out2' = normalize_signals(out)
    /\ pc' = "renormalized"
    /\ UNCHANGED <<df, out, alerts>>
    /\ UNCHANGED appVars

\* generate_alerts(normalize_signals(df))
GenerateAlerts ==
    /\ pc = "normalized"
    /\ alerts' = generate_alerts(out)
    /\ pc' = "alerts"
    /\ UNCHANGED <<df, out, out2>>
    /\ UNCHANGED appVars

\* the score normalizer on its own
InitNormalize ==
    /\ \E hasColumn \in BOOLEAN, n \in 1..MaxRows :
          \E rows \in [1..n -> NormRows(hasColumn)] :
              df = [cols |-> IF hasColumn THEN {"composite_risk_score"} ELSE {},
                    rows |-> Indexed(rows)]
    /\ out = EmptyFrame /\ out2 = EmptyFrame /\ alerts = <<>>
    /\ pc = "raw"
    /\ AppIdle
NextNormalize == Normalize \/ Renormalize
SpecNormalize == InitNormalize /\ [][NextNormalize]_vars

\* the alert generator on normalized signals
InitAlerts ==
    /\ \E n \in 1..MaxAlertRows :
          \E rows \in [1..n -> IF n = 1 THEN AlertRows \cup BandRows ELSE AlertRows] :
              df = [cols |-> {"composite_risk_score"}, rows |-> Indexed(rows)]
    /\ out = EmptyFrame /\ out2 = EmptyFrame /\ alerts = <<>>
    /\ pc = "raw"
    /\ AppIdle
NextAlerts == Normalize \/ GenerateAlerts
SpecAlerts == InitAlerts /\ [][NextAlerts]_vars

InitApp(signalFiles, actionFiles) ==
    /\ HarnessIdle
    /\ pc = "app"
    /\ csv \in [signals : signalFiles, actions : actionFiles]
    /\ session = [s \in Sessions |-> NoSession]
    /\ actions = {}
    /\ decision_log = {}
    /\ sqlite_sequence = [t \in {"actions", "decision_log"} |-> 0]
    /\ init_call = [s \in Sessions |-> NoCall]
    /\ last_call = NoOperation
    /\ history = NoHistory

Start ==
    \E s \in Sessions : (init_state(s) /\ UNCHANGED last_call) \/ reload(s)

Shock == \E s \in Sessions, c \in {"Wheat", "Rice"} : simulate_disruption(s, c)

Operate ==
    \E s \in Sessions :
        \/ \E title \in Titles, owner \in Owners : add_action_button(s, title, owner)
        \/ \E id \in 1..MaxIds, st \in Statuses, n \in Notes :
              save_updates_button(s, id, st, n)
        \/ \E id \in 1..MaxIds : delete_button(s, id)

\* the sessions and the shock simulation
InitShock == InitApp(CsvSignals, {<<>>})
NextShock == Start \/ Shock
SpecShock == InitShock /\ [][NextShock]_vars

\* the store on its own: the operations of src/src/db.py, called one after
\* the other by whichever sessions there are
call_init_db ==
    /\ ShouldSeed(load_mock_actions_csv) =>
          sqlite_sequence["actions"] + Len(load_mock_actions_csv) <= MaxIds
    /\ \E now \in Times : init_db(load_mock_actions_csv, now)
    /\ UNCHANGED <<csv, session, decision_log>>
    /\ UNCHANGED <<harnessVars, init_call, last_call>>

call_add_action ==
    /\ sqlite_sequence["actions"] < MaxIds
    /\ \E title \in {<<"T">>}, owner \in {Ops, <<"Q">>}, now \in Times :
          add_action(title, owner, DueDate, Open, <<>>, <<>>, All, now)
    /\ UNCHANGED <<csv, session, decision_log>>
    /\ UNCHANGED <<harnessVars, init_call, last_call>>

call_update_action ==
    /\ \E id \in 1..MaxIds, st \in Statuses, n \in Notes : update_action(id, st, n)
    /\ UNCHANGED <<csv, session, decision_log, sqlite_sequence, history>>
    /\ UNCHANGED <<harnessVars, init_call, last_call>>

call_delete_action ==
    /\ \E id \in 1..MaxIds : delete_action(id)
    /\ UNCHANGED <<csv, session, decision_log, sqlite_sequence>>
    /\ UNCHANGED <<harnessVars, init_call, last_call>>

call_add_decision_log ==
    /\ sqlite_sequence["decision_log"] < MaxLog
    /\ \E now \in Times :
          add_decision_log(<<"Simulated Red Sea disruption triggered", "Wheat">>, now)
    /\ UNCHANGED <<csv, session, actions>>
    /\ UNCHANGED <<harnessVars, init_call, last_call>>

\* init_db as the sessions run it side by side.  The connection is in
\* autocommit until the first INSERT, so SELECT COUNT(1) (lines 50-51) is a
\* read of its own, and the INSERTs and the commit (lines 69-76) are one write
\* transaction that SQLite serializes with the other writers.
init_db_count(s) ==
    /\ init_call[s].at = "idle"
    /\ init_call[s].calls < MaxEvents
    /\ init_call' = [init_call EXCEPT ![s] =
          [at |-> "counted", count |-> Cardinality(actions), calls |-> @.calls + 1]]
    /\ UNCHANGED <<csv, session, actions, decision_log, sqlite_sequence, history,
                    last_call>>
    /\ UNCHANGED harnessVars

\* line 52 on, with the count read before
init_db_insert(s) ==
    /\ init_call[s].at = "counted"
    /\ IF init_call[s].count = 0 /\ Len(load_mock_actions_csv) > 0
       THEN \E now \in Times : InsertSeeds(load_mock_actions_csv, now)
       ELSE /\ UNCHANGED <<actions, sqlite_sequence>>
            /\ history' = [history EXCEPT !.called_again = @ \/ actions # {}]
    /\ init_call' = [init_call EXCEPT ![s].at = "idle"]
    /\ UNCHANGED <<csv, session, decision_log, last_call>>
    /\ UNCHANGED harnessVars

CountStep == \E s \in Sessions : init_db_count(s)
InsertStep == \E s \in Sessions : init_db_insert(s)

\* the sessions starting at the same time: only calls of init_db
InitInitDb == InitApp({CHOOSE f \in CsvSignals : TRUE}, CsvActions)
NextInitDb == CountStep \/ InsertStep
SpecInitDb == InitInitDb /\ [][NextInitDb]_vars

\* the operations on the actions table, each call with its arguments on
\* record
traced_add_action ==
    /\ sqlite_sequence["actions"] < MaxIds
    /\ \E title \in {<<"T">>}, owner \in {Ops}, now \in Times :
          /\ add_action(title, owner, DueDate, Open, <<>>, <<>>, All, now)
          /\ last_call' = [NoOperation EXCEPT !.op = "add_action",
                                              !.title = title, !.owner = owner]
    /\ UNCHANGED <<csv, session, decision_log, init_call>>
    /\ UNCHANGED harnessVars

traced_update_action ==
    /\ \E id \in 1..MaxIds, st \in Statuses, n \in Notes :
          /\ update_action(id, st, n)
          /\ last_call' = [NoOperation EXCEPT !.op = "update_action", !.id = id,
                                              !.status = st, !.notes = n]
    /\ UNCHANGED <<csv, session, decision_log, sqlite_sequence, init_call, history>>
    /\ UNCHANGED harnessVars

traced_delete_action ==
    /\ \E id \in 1..MaxIds :
          /\ delete_action(id)
          /\ last_call' = [NoOperation EXCEPT !.op = "delete_action", !.id = id]
    /\ UNCHANGED <<csv, session, decision_log, sqlite_sequence, init_call>>
    /\ UNCHANGED harnessVars

\* the first session starts and seeds the store, as in init_state
traced_init_db ==
    /\ last_call = NoOperation
    /\ \E now \in Times : init_db(load_mock_actions_csv, now)
    /\ last_call' = [NoOperation EXCEPT !.op = "init_db"]
    /\ UNCHANGED <<csv, session, decision_log, init_call>>
    /\ UNCHANGED harnessVars

\* (one entry is all these properties need in the decision log)
traced_add_decision_log ==
    /\ decision_log = {}
    /\ \E now \in Times :
          add_decision_log(<<"Simulated Red Sea disruption triggered", "Wheat">>, now)
    /\ last_call' = [NoOperation EXCEPT !.op = "add_decision_log"]
    /\ UNCHANGED <<csv, session, actions, init_call>>
    /\ UNCHANGED harnessVars

InitOps == InitApp({CHOOSE f \in CsvSignals : TRUE}, {<<SeedFile(<<"A">>)>>})
NextOps ==
    \/ traced_init_db
    \/ traced_add_action
    \/ traced_update_action
    \/ traced_delete_action
    \/ traced_add_decision_log
SpecOps == InitOps /\ [][NextOps]_vars

InitStore == InitApp({CHOOSE f \in CsvSignals : TRUE}, CsvActions)
NextStore ==
    \/ call_init_db
    \/ call_add_action
    \/ call_update_action
    \/ call_delete_action
    \/ call_add_decision_log
SpecStore == InitStore /\ [][NextStore]_vars

\* the decision log: the sessions with their shocks, no page loaded anew, and
\* the operations of the store on the seeded actions
FirstStart == \E s \in Sessions : init_state(s) /\ UNCHANGED last_call

InitLog == InitApp({CHOOSE f \in CsvSignals : TRUE}, {<<SeedFile(<<"A">>)>>})
NextLog ==
    \/ FirstStart
    \/ Shock
    \/ call_update_action
    \/ call_delete_action
    \/ call_add_decision_log
SpecLog == InitLog /\ [][NextLog]_vars

\* the form "Add action" in the sessions, each step on record
traced_init_state ==
    \E s \in Sessions :
        init_state(s) /\ last_call' = [NoOperation EXCEPT !.op = "init_state"]

AddAction ==
    \E s \in Sessions, title \in Titles, owner \in Owners :
        add_action_button(s, title, owner)

InitAdd == InitApp({CHOOSE f \in CsvSignals : TRUE}, {<<SeedFile(<<"A">>)>>})
NextAdd == traced_init_state \/ AddAction \/ traced_add_decision_log
SpecAdd == InitAdd /\ [][NextAdd]_vars

\* the dashboard: sessions, all their handlers and the store
Init == InitApp(CsvSignals, CsvActions)
Next == Start \/ Shock \/ Operate
Spec == Init /\ [][Next]_vars

----------------------------------------------------------------------------
(* The score normalizer: properties *)

InRange(c, lo, hi) == IsNum(c) /\ lo <= c.v /\ c.v <= hi

\* the normalizer has returned, and row i of its input and output
Normalized == pc \in {"normalized", "renormalized", "alerts"}
RowsOut == 1..Len(out.rows)

\* C1 as stated: in every row normalize_signals returns, the four driver
\* scores and the composite are in [0,100] and the confidence is in [0,1],
\* also in the rows whose raw values did not parse as numbers.
C1_AllInBounds ==
    Normalized =>
        \A i \in RowsOut :
            /\ \A d \in 1..4 : InRange(Driver(out.rows[i], d), 0, 10000)
            /\ InRange(out.rows[i].composite_risk_score, 0, 10000)
            /\ InRange(out.rows[i].confidence, 0, 100)

\* C1 as amended: in every row normalize_signals returns, each driver score
\* whose raw value is a number is in [0,100], the composite is in [0,100]
\* when it is supplied as a number or derived from four numeric drivers, and
\* the confidence is in [0,1] when its raw value is a number; a value that
\* does not parse as a number comes out as the missing marker, and so does a
\* composite derived from a missing driver.
C1_InBoundsUnlessMissing ==
    Normalized =>
        \A i \in RowsOut :
            LET raw == df.rows[i]
                res == out.rows[i]
                supplied == "composite_risk_score" \in df.cols
                               /\ IsNum(raw.composite_risk_score)
                derivable == \A d \in 1..4 : IsNum(Driver(raw, d))
            IN  /\ \A d \in 1..4 :
                      IF IsNum(Driver(raw, d))
                      THEN InRange(Driver(res, d), 0, 10000)
                      ELSE Driver(res, d) = NaN
                /\ IF supplied \/ derivable
                   THEN InRange(res.composite_risk_score, 0, 10000)
                   ELSE res.composite_risk_score = NaN
                /\ IF IsNum(raw.confidence)
                   THEN InRange(res.confidence, 0, 100)
                   ELSE res.confidence = NaN

\* a batch with a driver above the range, a driver that does not parse, a
\* composite and a confidence above the range has been normalized
C1_Witness ==
    /\ Normalized
    /\ \E i \in RowsOut : /\ df.rows[i].logistics_risk_score = Num(15000)
                          /\ out.rows[i].logistics_risk_score = Num(10000)
    /\ \E i \in RowsOut : /\ df.rows[i].supply_risk_score = Text
                          /\ out.rows[i].supply_risk_score = NaN
                          /\ out.rows[i].composite_risk_score = NaN
    /\ \E i \in RowsOut : /\ df.rows[i].composite_risk_score = Num(15000)
                          /\ out.rows[i].composite_risk_score = Num(10000)
                          /\ df.rows[i].confidence = Num(150)
                          /\ out.rows[i].confidence = Num(100)

\* the first of the drivers of row r whose score is maximal, all four being
\* numbers
FirstMaximal(r) ==
    CHOOSE i \in 1..4 :
        /\ \A j \in 1..4 : Driver(r, j).v <= Driver(r, i).v
        /\ \A j \in 1..(i - 1) : Driver(r, j).v < Driver(r, i).v

\* C2: in every row normalize_signals returns (with four numeric driver
\* scores), main_driver names the driver whose score in that output row is
\* maximal, the first in the order Supply, Logistics, Climate, Geopolitical
\* when several are.
C2_MainDriverIsMaxOfOutput ==
    Normalized =>
        \A i \in RowsOut :
            (\A d \in 1..4 : IsNum(Driver(out.rows[i], d)))
                => out.rows[i].main_driver = DriverName(FirstMaximal(out.rows[i]))

\* C3: normalize_signals(normalize_signals(x)) equals normalize_signals(x) in
\* every field.
C3_Idempotent == pc = "renormalized" => out2 = out

\* C4: where the input has no composite column, or the row's composite is
\* missing, the composite normalize_signals returns is the weighted sum of the
\* row's driver scores as they are in the output.
C4_CompositeIsWeightedSumOfOutput ==
    Normalized =>
        \A i \in RowsOut :
            LET r == out.rows[i]
            IN  (/\ \/ "composite_risk_score" \notin df.cols
                    \/ ~IsNum(df.rows[i].composite_risk_score)
                 /\ \A d \in 1..4 : IsNum(Driver(r, d)))
                => r.composite_risk_score =
                      Num((35 * r.supply_risk_score.v + 25 * r.logistics_risk_score.v
                           + 20 * r.climate_risk_score.v
                           + 20 * r.geopolitical_risk_score.v) \div 100)

----------------------------------------------------------------------------
(* The shock simulation: properties *)

\* the last handler that ran in session s is the shock of commodity c
JustShocked(s, c) ==
    /\ session[s].notifications # <<>>
    /\ session[s].notifications[Len(session[s].notifications)].msg
          = <<"Shock simulated", c>>

WeightedSum(r) ==
    Num((35 * r.supply_risk_score.v + 25 * r.logistics_risk_score.v
         + 20 * r.climate_risk_score.v + 20 * r.geopolitical_risk_score.v) \div 100)

\* C5: after the shock of commodity c has run in a session, every row of c
\* (with four numeric driver scores) has a composite equal to the weighted sum
\* of its driver scores after the shock, and a main_driver naming the maximal
\* of them.
C5_ShockRecomputesComposite ==
    \A s \in Sessions, c \in {"Wheat", "Rice"} :
        JustShocked(s, c) =>
            \A i \in 1..Len(session[s].signals.rows) :
                LET r == session[s].signals.rows[i]
                IN  (r.commodity = c /\ \A d \in 1..4 : IsNum(Driver(r, d)))
                    => /\ r.composite_risk_score = WeightedSum(r)
                       /\ r.main_driver = DriverName(FirstMaximal(r))

\* the step is a shock of commodity c in session s
ShockStep(s, c) ==
    /\ session[s].keys # {}
    /\ session'[s].keys # {}
    /\ Len(session'[s].notifications) = Len(session[s].notifications) + 1
    /\ session'[s].notifications[Len(session'[s].notifications)].msg
          = <<"Shock simulated", c>>

\* C6: a shock of commodity c leaves every row of another commodity as it was
\* in every field, and gives each row of c a logistics score of
\* min(100, old + 20), a geopolitical score of min(100, old + 15) and a 7-day
\* change of old + 8.
C6_ShockFrame ==
    [][\A s \in Sessions, c \in {"Wheat", "Rice"} :
        ShockStep(s, c) =>
            /\ Len(session'[s].signals.rows) = Len(session[s].signals.rows)
            /\ \A i \in 1..Len(session[s].signals.rows) :
                LET old == session[s].signals.rows[i]
                    new == session'[s].signals.rows[i]
                IN  IF old.commodity # c THEN new = old
                    ELSE /\ IsNum(old.logistics_risk_score) =>
                              new.logistics_risk_score
                                 = Num(Min(10000, old.logistics_risk_score.v + 2000))
                         /\ IsNum(old.geopolitical_risk_score) =>
                              new.geopolitical_risk_score
                                 = Num(Min(10000, old.geopolitical_risk_score.v + 1500))
                         /\ IsNum(old.chg_7d) => new.chg_7d = Num(old.chg_7d.v + 800)
      ]_vars

----------------------------------------------------------------------------
(* The alert generator: properties *)

Alerted == pc = "alerts"

\* the two trigger conditions on a normalized row, a missing value meeting none
CompositeAtLeast70(r) == IsNum(r.composite_risk_score) /\ r.composite_risk_score.v >= 7000
ChangeAtLeast10(r) ==
    IsNum(r.chg_7d) /\ (r.chg_7d.v >= 1000 \/ r.chg_7d.v <= -1000)

\* C7: a normalized row is in the output of generate_alerts iff its composite
\* is >= 70 or |chg_7d| >= 10, it is there once, and its trigger_reason names
\* exactly the conditions that hold; no alert has an empty reason.
C7_AlertMembership ==
    Alerted =>
        /\ \A i \in RowsOut :
              LET r == out.rows[i]
                  hits == {j \in 1..Len(alerts) : alerts[j].index = r.index}
              IN  IF CompositeAtLeast70(r) \/ ChangeAtLeast10(r)
                  THEN /\ Cardinality(hits) = 1
                       /\ \A j \in hits :
                            /\ alerts[j].composite_risk_score = r.composite_risk_score
                            /\ alerts[j].chg_7d = r.chg_7d
                            /\ alerts[j].trigger_reason =
                                 IF CompositeAtLeast70(r) /\ ChangeAtLeast10(r)
                                     THEN "Composite >= 70 AND |7D change| >= 10"
                                 ELSE IF CompositeAtLeast70(r) THEN "Composite >= 70"
                                 ELSE "|7D change| >= 10"
                  ELSE hits = {}
        /\ \A j \in 1..Len(alerts) :
              /\ alerts[j].trigger_reason # ""
              /\ \E i \in RowsOut : out.rows[i].index = alerts[j].index

\* three rows went in: one at composite 70 exactly with a small change, one
\* below 70 with a change of -10 exactly, one below both thresholds
C7_Witness ==
    /\ Alerted
    /\ Len(out.rows) = 3
    /\ Len(alerts) = 2
    /\ \E j \in 1..2 : /\ alerts[j].composite_risk_score = Num(7000)
                       /\ alerts[j].chg_7d = Num(980)
                       /\ alerts[j].trigger_reason = "Composite >= 70"
    /\ \E j \in 1..2 : /\ alerts[j].composite_risk_score = Num(6980)
                       /\ alerts[j].chg_7d = Num(-1000)
                       /\ alerts[j].trigger_reason = "|7D change| >= 10"
    /\ \E i \in RowsOut : /\ out.rows[i].composite_risk_score = Num(6980)
                          /\ out.rows[i].chg_7d = Num(980)

\* C8: the severity of an alert is Low iff its composite is < 50, Medium iff
\* it is in [50,70), High iff it is in [70,85) and Critical iff it is >= 85; a
\* row whose composite is missing is in none of the bands, and not Critical.
C8_SeverityBands ==
    Alerted =>
        \A j \in 1..Len(alerts) :
            LET c == alerts[j].composite_risk_score
                sev == alerts[j].severity
            IN  /\ sev = "Low" <=> (IsNum(c) /\ c.v < 5000)
                /\ sev = "Medium" <=> (IsNum(c) /\ 5000 <= c.v /\ c.v < 7000)
                /\ sev = "High" <=> (IsNum(c) /\ 7000 <= c.v /\ c.v < 8500)
                /\ sev = "Critical" <=> (IsNum(c) /\ c.v >= 8500)

\* C9 as stated: of two alerts A before B, A.composite > B.composite, or
\* A.composite = B.composite and A.chg_7d >= B.chg_7d (comparisons of numbers:
\* one with a missing value is false).
C9_OrderedByCompositeThenChange ==
    Alerted =>
        \A i, j \in 1..Len(alerts) :
            i < j =>
                LET a == alerts[i]
                    b == alerts[j]
                IN  /\ IsNum(a.composite_risk_score)
                    /\ IsNum(b.composite_risk_score)
                    /\ \/ a.composite_risk_score.v > b.composite_risk_score.v
                       \/ /\ a.composite_risk_score.v = b.composite_risk_score.v
                          /\ IsNum(a.chg_7d)
                          /\ IsNum(b.chg_7d)
                          /\ a.chg_7d.v >= b.chg_7d.v

\* C9 as amended: of two alerts A before B, A.composite > B.composite, or
\* B's composite is missing and A's is not, or the composites are equal or
\* both missing and then A.chg_7d >= B.chg_7d or B's chg_7d is missing.
C9_OrderedMissingLast ==
    Alerted =>
        \A i, j \in 1..Len(alerts) :
            i < j =>
                LET ac == alerts[i].composite_risk_score
                    bc == alerts[j].composite_risk_score
                    ah == alerts[i].chg_7d
                    bh == alerts[j].chg_7d
                IN  \/ IsNum(ac) /\ IsNum(bc) /\ ac.v > bc.v
                    \/ IsNum(ac) /\ ~IsNum(bc)
                    \/ /\ \/ IsNum(ac) /\ IsNum(bc) /\ ac.v = bc.v
                          \/ ~IsNum(ac) /\ ~IsNum(bc)
                       /\ \/ IsNum(ah) /\ IsNum(bh) /\ ah.v >= bh.v
                          \/ ~IsNum(bh)

\* three alerts came out in the reverse of the order their rows went in: the
\* rows (missing, -10), (70, -10), (70, 12) as (70, 12), (70, -10), (missing, -10)
C9_Witness ==
    /\ Alerted
    /\ Len(alerts) = 3
    /\ alerts[1].index = 2 /\ alerts[2].index = 1 /\ alerts[3].index = 0
    /\ alerts[1].composite_risk_score = Num(7000) /\ alerts[1].chg_7d = Num(1200)
    /\ alerts[2].composite_risk_score = Num(7000) /\ alerts[2].chg_7d = Num(-1000)
    /\ alerts[3].composite_risk_score = NaN /\ alerts[3].chg_7d = Num(-1000)

----------------------------------------------------------------------------
(* The store: properties *)

\* the rows of the table that seed row k of the file was inserted as
SeedCopies(k) ==
    {r \in actions : <<r.id, k>> \in history.seed_of}

\* C10: init_db inserts seed rows only into an empty table, and as long as
\* the table has not been emptied each seed row is in it at most once,
\* whatever calls of init_db, add_action, update_action and delete_action
\* were made.
C10_SeedOnlyWhenEmpty ==
    /\ [](~history.emptied =>
            \A k \in 1..Len(csv.actions) : Cardinality(SeedCopies(k)) <= 1)
    /\ [][history'.seed_of # history.seed_of =>
            /\ actions = {}
            /\ Cardinality(actions') = Len(csv.actions)]_vars

\* the table was seeded with two rows, a row was added, a seed row was
\* updated, and init_db was called again: nothing was deleted
C10_Witness ==
    /\ history.called_again
    /\ ~history.emptied
    /\ Cardinality(actions) = 3
    /\ Cardinality(SeedCopies(1)) = 1
    /\ Cardinality(SeedCopies(2)) = 1
    /\ \E r \in SeedCopies(1) : r.status = Done

----------------------------------------------------------------------------
(* init_db in two sessions at once: properties *)

\* C11: when the sessions have run init_db with seed rows against a store
\* that was empty, in whatever interleaving of their count checks and
\* inserts, and no call is in progress, the actions table holds each seed
\* row exactly once.
C11_ConcurrentInitSeedsOnce ==
    (/\ \A s \in Sessions : init_call[s].at = "idle"
     /\ \E s \in Sessions : init_call[s].calls > 0
     /\ Len(csv.actions) > 0)
    => /\ \A k \in 1..Len(csv.actions) : Cardinality(SeedCopies(k)) = 1
       /\ Cardinality(actions) = Len(csv.actions)

----------------------------------------------------------------------------
(* The operations on the actions table: properties *)

ActionIds == {r.id : r \in actions}

\* C12: add_action adds exactly one row, with the title and the owner given
\* and an id greater than every id assigned before (so never the id of a
\* deleted action); a row that comes into the table, by whatever operation,
\* has an id greater than every id assigned before; no two rows of the table
\* share an id.
C12_FreshIds ==
    /\ [](\A r, q \in actions : r.id = q.id => r = q)
    /\ [][/\ \A r \in actions' :
               r \notin actions /\ r.id \notin ActionIds
                  => \A i \in history.assigned : i < r.id
           /\ last_call'.op = "add_action" =>
                 \E new \in actions' :
                    /\ new \notin actions
                    /\ actions' = actions \cup {new}
                    /\ Cardinality(actions') = Cardinality(actions) + 1
                    /\ new.title = last_call'.title
                    /\ new.owner = last_call'.owner
                    /\ \A j \in history.assigned \cup ActionIds : j < new.id
          ]_vars

\* three ids were assigned, the actions with the first two were deleted, and
\* the third is in the table
C12_Witness ==
    /\ history.assigned = {1, 2, 3}
    /\ ActionIds = {3}
    /\ last_call.op = "add_action"
    /\ \E r \in actions : r.title = <<"T">> /\ r.owner = Ops

\* C13: delete_action(id) removes the action with that id and no other row,
\* and list_actions then holds every other action and none with that id; when
\* no action has that id the actions table is as it was; in both cases the
\* decision log is as it was.
C13_DeleteThatRowOnly ==
    /\ [](last_call.op = "delete_action" =>
            /\ \A i \in 1..Len(list_actions) : list_actions[i].id # last_call.id
            /\ \A r \in actions : \E i \in 1..Len(list_actions) : list_actions[i] = r)
    /\ [][last_call'.op = "delete_action" =>
            LET id == last_call'.id
            IN  /\ \A r \in actions : r.id # id => r \in actions'
                /\ \A r \in actions' : r \in actions /\ r.id # id
                /\ id \notin ActionIds => actions' = actions
                /\ decision_log' = decision_log
                /\ sqlite_sequence' = sqlite_sequence
        ]_vars

\* the action with id 2 of three was deleted, and deleted again (the table
\* holds the two others, the decision log an entry)
C13_Witness ==
    /\ last_call.op = "delete_action"
    /\ last_call.id = 2
    /\ history.assigned = {1, 2, 3}
    /\ ActionIds = {1, 3}
    /\ Len(list_actions) = 2
    /\ list_actions[1].id = 3
    /\ decision_log # {}

\* C14: update_action(id, status, notes) gives the action with that id the
\* status and the notes of the call and leaves its other fields, every other
\* action and the decision log as they were; when no action has that id the
\* store is as it was.
C14_UpdateStatusAndNotesOnly ==
    [][last_call'.op = "update_action" =>
          LET id == last_call'.id
          IN  /\ Cardinality(actions') = Cardinality(actions)
              /\ \A r \in actions :
                    IF r.id # id THEN r \in actions'
                    ELSE \E q \in actions' :
                            /\ q.id = id
                            /\ q.status = last_call'.status
                            /\ q.notes = last_call'.notes
                            /\ q.title = r.title
                            /\ q.owner = r.owner
                            /\ q.due_date = r.due_date
                            /\ q.expected_risk_impact = r.expected_risk_impact
                            /\ q.commodity = r.commodity
                            /\ q.created_at = r.created_at
              /\ id \notin ActionIds => actions' = actions
              /\ decision_log' = decision_log
              /\ sqlite_sequence' = sqlite_sequence
      ]_vars

\* of two actions created at different seconds the second was updated: it is
\* Done with the notes of the call, the first is Open with no notes
C14_Witness ==
    /\ last_call.op = "update_action"
    /\ last_call.id = 2
    /\ decision_log # {}
    /\ \E r, q \in actions :
          /\ r.id = 1 /\ r.status = Open /\ r.notes = <<>>
          /\ q.id = 2 /\ q.status = Done /\ q.notes = <<"n">>
          /\ r.created_at # q.created_at

----------------------------------------------------------------------------
(* The decision log: properties *)

\* the entries in the order add_decision_log appended them
Logged == history.logged

\* C15: no entry of the decision log is ever changed or removed, the ids of
\* the entries increase strictly in the order they were appended, and after N
\* appends list_decision_logs(k) is the min(k, N) entries appended last, the
\* last one first.
C15_AppendOnlyLatestFirst ==
    /\ [](\A i, j \in 1..Len(Logged) : i < j => Logged[i].id < Logged[j].id)
    /\ [](\A k \in 0..(Len(Logged) + 1) :
            LET listed == list_decision_logs(k)
            IN  /\ Len(listed) = Min(k, Len(Logged))
                /\ \A i \in 1..Len(listed) :
                      listed[i] = Logged[Len(Logged) - i + 1])
    /\ [][/\ \A e \in decision_log : e \in decision_log'
           /\ Cardinality(decision_log') >= Cardinality(decision_log)
           /\ Len(history'.logged) >= Len(Logged)
           /\ \A i \in 1..Len(Logged) : history'.logged[i] = Logged[i]
          ]_vars

\* three entries were appended, the last two by shocks of the two commodities
\* in the two sessions, and the seeded action was updated and deleted:
\* list_decision_logs(2) is the third entry and then the second
C15_Witness ==
    /\ Len(Logged) = 3
    /\ list_decision_logs(2) = <<Logged[3], Logged[2]>>
    /\ list_decision_logs(4) = <<Logged[3], Logged[2], Logged[1]>>
    /\ Logged[2].message # Logged[3].message
    /\ Logged[2].ts # Logged[3].ts
    /\ JustShocked("s1", "Wheat")
    /\ JustShocked("s2", "Rice")
    /\ history.emptied

----------------------------------------------------------------------------
(* The form "Add action": properties *)

Blank(t) == \A i \in 1..Len(t) : t[i] = " "

\* t without the blanks at its two ends
Trimmed(t) ==
    LET inner == {i \in 1..Len(t) : t[i] # " "}
    IN  IF inner = {} THEN <<>>
        ELSE SubSeq(t, CHOOSE i \in inner : \A j \in inner : i <= j,
                       CHOOSE i \in inner : \A j \in inner : j <= i)

\* C16: a click on "Add action" with a title that is blank shows the error
\* and writes nothing: the actions table, the decision log and every
\* session's notifications are as they were; with another title it adds one
\* action with the trimmed title and the trimmed owner, "Ops" for a blank
\* owner, and appends one notification to the list of one session.
C16_AddActionValidates ==
    [][last_call'.op = "Add action" =>
          LET title == last_call'.title
              owner == last_call'.owner
          IN  /\ decision_log' = decision_log
              /\ IF Blank(title)
                 THEN /\ actions' = actions
                      /\ sqlite_sequence' = sqlite_sequence
                      /\ \A s \in Sessions :
                            session'[s].notifications = session[s].notifications
                      /\ \E s \in Sessions : session'[s].flash = "Title is required."
                 ELSE /\ \E r \in actions' :
                            /\ r \notin actions
                            /\ actions' = actions \cup {r}
                            /\ r.title = Trimmed(title)
                            /\ r.owner = IF Blank(owner) THEN Ops ELSE Trimmed(owner)
                      /\ Cardinality(actions') = Cardinality(actions) + 1
                      /\ \E s \in Sessions :
                            /\ Len(session'[s].notifications)
                                  = Len(session[s].notifications) + 1
                            /\ SubSeq(session'[s].notifications, 1,
                                      Len(session[s].notifications))
                                  = session[s].notifications
                            /\ \A t \in Sessions \ {s} : session'[t] = session[t]
      ]_vars

\* a session added an action with the title "T " and a blank owner (stored
\* as "T" of "Ops", one notification more), and the last click, with a blank
\* title, was turned down
C16_Witness ==
    /\ last_call.op = "Add action"
    /\ last_call.title = <<" ">>
    /\ \E s \in Sessions :
          /\ session[s].flash = "Title is required."
          /\ Len(session[s].notifications) = Len(SeedNotifications) + 1
    /\ \E r \in actions : r.title = <<"T">> /\ r.owner = Ops
    /\ Cardinality(actions) = 2
    /\ decision_log # {}

----------------------------------------------------------------------------
(* The sessions' signals: properties *)

\* session s has run its script and no shock since
Unshocked(s) ==
    /\ session[s].keys # {}
    /\ \A i \in 1..Len(session[s].notifications) :
          Head(session[s].notifications[i].msg) # "Shock simulated"

\* C17: a shock in one session leaves the state of every other session and
\* the source data as they were, and the signals of a session that has
\* applied no shock are the normalized rows of the source data, whatever
\* shocks the other session has applied.
C17_SessionsIsolated ==
    /\ [](\A s \in Sessions : Unshocked(s) => session[s].signals = load_mock_signals)
    /\ [][/\ csv' = csv
           /\ \A s \in Sessions, c \in {"Wheat", "Rice"} :
                 ShockStep(s, c) => \A t \in Sessions \ {s} : session'[t] = session[t]
          ]_vars

\* the first session has applied two shocks, the second none: the signals of
\* the first differ from the source data, those of the second do not
C17_Witness ==
    /\ Len(session["s1"].notifications) = Len(SeedNotifications) + 2
    /\ JustShocked("s1", "Wheat")
    /\ session["s1"].signals # load_mock_signals
    /\ Unshocked("s2")
    /\ session["s2"].signals = load_mock_signals
    /\ Len(Logged) = 2

====
